---- MODULE Spec2Model ----
(***************************************************************************)
(* Model of src/src/App.jsx: the listening fill-in-the-blanks quiz.        *)
(*                                                                         *)
(* Strings are sequences of one-character strings.  An optional number     *)
(* (timeLimitSec, timeLeft) is <<>> for null/undefined and <<n>> for n.    *)
(* Blank indices are 0-based as in the source; sequences are 1-based, so   *)
(* blank i of a question is blanks[i + 1].                                 *)
(*                                                                         *)
(* One action is one event of the program together with the React effects  *)
(* it sets off (lines 165-181), run until the component is stable.         *)
(***************************************************************************)
EXTENDS Integers, Sequences, FiniteSets, TLC

VARIABLES
    pc,         \* "boot" before the first render, "running", "crashed" after a throw in render
    stored,     \* localStorage["fib-questions"]
    now,        \* Date.now()
    questions,  \* useState questions (line 156)
    index,      \* useState index (line 148)
    answers,    \* useState answers (line 149): blank index -> text
    checked,    \* useState checked (line 150)
    score,      \* useState score (line 151)
    timeLeft,   \* useState timeLeft (line 152)
    last,       \* history: the last event taken
    transcript, \* AdminPanel useState transcript (line 400)
    editQuestion, \* useState editQuestion (line 160): <<>> or <<question>>
    panel,      \* history: what the admin panel did last (phase) and the
                \* transcript each question id was last saved from (authored)
    arg,        \* history: the id given to the last update or delete, and the
                \* fields the author filled in for it
    intervalFrom, \* the setInterval of line 175: "none", "session" when it was
                \* scheduled in the current session, or the event that began
                \* the current session after it was scheduled; "unfollowed"
                \* where the interval's origin is not followed
    pending     \* remote saves (fetch, line 233) sent and not yet settled:
                \* Some(n), or Null where the requests are not followed

vars == <<pc, stored, now, questions, index, answers, checked, score, timeLeft,
          last, transcript, editQuestion, panel, arg, intervalFrom, pending>>

sessionVars == <<index, answers, checked, score, timeLeft>>
panelVars == <<transcript, editQuestion, panel>>

----------------------------------------------------------------------------
(* Bounds *)

MaxQuestions == 2
MaxClock == 4
ClockStart == 3
MaxTicks == 2
MaxLen == 4
MaxPending == 2
MaxGradeLen == 2

----------------------------------------------------------------------------
(* Values *)

Null == <<>>
Some(n) == <<n>>

Min(S) == CHOOSE x \in S : \A y \in S : x <= y

SubSeqFrom(s, a) == SubSeq(s, a, Len(s))

----------------------------------------------------------------------------
(* Transcript parser: addQuestion / updateQuestion, regex /\[(.+?)\]/g *)

IsLineTerminator(c) == c = "\n"

\* End (1-based position of the closing bracket) of the lazy match \[(.+?)\]
\* that starts at position p, or 0: the content has at least one character,
\* so the closing bracket is the first "]" at p + 2 or later.
MatchEnd(T, p) ==
    LET cands == {r \in (p + 2)..Len(T) : T[r] = "]"}
    IN  IF cands = {} THEN 0 ELSE Min(cands)

IsMatchAt(T, p) ==
    /\ T[p] = "["
    /\ MatchEnd(T, p) # 0
    /\ \A k \in (p + 1)..(MatchEnd(T, p) - 1) : ~IsLineTerminator(T[k])

\* regex.exec(transcript) with regex.lastIndex = lastIndex (0-based):
\* the leftmost match at or after lastIndex, or Null.
RegexExec(T, lastIndex) ==
    LET starts == {p \in (lastIndex + 1)..Len(T) : IsMatchAt(T, p)}
    IN  IF starts = {} THEN Null
        ELSE LET p == Min(starts)
                 r == MatchEnd(T, p)
             IN  Some([index |-> p - 1, group |-> SubSeq(T, p + 1, r - 1), lastIndex |-> r])

Literal(s) == [text |-> s]
Placeholder(n) == [blank |-> n]
IsLiteral(t) == "text" \in DOMAIN t

\* A parser that forgets the text after the last bracket span.
TailTokensDropped(T, lastIndex, tokens) == tokens

\* if (lastIndex < transcript.length) tokens.push(transcript.slice(lastIndex))
TailTokens(T, lastIndex, tokens) ==
    IF lastIndex < Len(T)
    THEN Append(tokens, Literal(SubSeqFrom(T, lastIndex + 1)))
    ELSE tokens

\* A parser that pushes the text before a bracket span even when there is none.
LeadTokensAlways(T, lastIndex, mIndex, tokens) ==
    Append(tokens, Literal(SubSeq(T, lastIndex + 1, mIndex)))

\* if (m.index > lastIndex) tokens.push(transcript.slice(lastIndex, m.index))
LeadTokens(T, lastIndex, mIndex, tokens) ==
    IF mIndex > lastIndex
    THEN Append(tokens, Literal(SubSeq(T, lastIndex + 1, mIndex)))
    ELSE tokens

RECURSIVE ParseLoop(_, _, _, _)
ParseLoop(T, lastIndex, tokens, blanks) ==
    LET m == RegexExec(T, lastIndex)
    IN  IF m = Null
        THEN [tokens |-> TailTokens(T, lastIndex, tokens), blanks |-> blanks]
        ELSE ParseLoop(T, m[1].lastIndex,
                       Append(LeadTokens(T, lastIndex, m[1].index, tokens),
                              Placeholder(Len(blanks))),
                       Append(blanks, m[1].group))

Parse(T) == ParseLoop(T, 0, <<>>, <<>>)

\* AdminPanel: tokens.map(t => typeof t === "string" ? t : `[${blanks[t.blank]}]`).join("")
RECURSIVE JoinTokens(_, _)
JoinTokens(tokens, blanks) ==
    IF tokens = <<>> THEN <<>>
    ELSE LET t == Head(tokens)
             piece == IF IsLiteral(t) THEN t.text
                      ELSE <<"[">> \o blanks[t.blank + 1] \o <<"]">>
         IN  piece \o JoinTokens(Tail(tokens), blanks)

Render(q) == JoinTokens(q.tokens, q.blanks)

----------------------------------------------------------------------------
(* Grading *)

IsWhiteSpace(c) == c \in {" ", "\n"}

RECURSIVE TrimStart(_)
TrimStart(s) ==
    IF s # <<>> /\ IsWhiteSpace(Head(s)) THEN TrimStart(Tail(s)) ELSE s

RECURSIVE TrimEnd(_)
TrimEnd(s) ==
    IF s # <<>> /\ IsWhiteSpace(s[Len(s)]) THEN TrimEnd(SubSeq(s, 1, Len(s) - 1)) ELSE s

Trim(s) == TrimEnd(TrimStart(s))

LowerChar(c) == CASE c = "A" -> "a" [] c = "B" -> "b" [] OTHER -> c

ToLowerCase(s) == [k \in 1..Len(s) |-> LowerChar(s[k])]

\* A grader for which an empty entry counts as an entry.
TruthyWhenPresent(a, i) == i \in DOMAIN a

Truthy(a, i) == i \in DOMAIN a /\ a[i] # <<>>

isCorrect(a, q, i) ==
    /\ Truthy(a, i)
    /\ ToLowerCase(Trim(a[i])) = ToLowerCase(Trim(q.blanks[i + 1]))

blanksCount(q) == Len(q.blanks)

CountCorrect(a, q) == Cardinality({i \in 0..(blanksCount(q) - 1) : isCorrect(a, q, i)})

----------------------------------------------------------------------------
(* Question records *)

SeedId == 1
SeedTimeLimit == 90

SAMPLE_QUESTIONS ==
    << [id |-> SeedId,
        title |-> "Urban parks audio clip",
        audioUrl |-> "https://www.soundhelix.com/examples/mp3/SoundHelix-Song-1.mp3",
        timeLimitSec |-> Some(SeedTimeLimit),
        tokens |-> << Literal(<<"C", "i", "t", "y", " ", "p", "a", "r", "k", "s", " ", "p", "r", "o", "v", "i", "d", "e", " ", "v", "i", "t", "a", "l", " ">>),
                      Placeholder(0),
                      Literal(<<" ", "f", "o", "r", " ", "r", "e", "s", "i", "d", "e", "n", "t", "s", ",", " ", "o", "f", "f", "e", "r", "i", "n", "g", " ", "s", "p", "a", "c", "e", "s", " ", "f", "o", "r", " ">>),
                      Placeholder(1),
                      Literal(<<",", " ", "r", "e", "l", "a", "x", "a", "t", "i", "o", "n", ",", " ", "a", "n", "d", " ", "c", "o", "m", "m", "u", "n", "i", "t", "y", " ", "e", "v", "e", "n", "t", "s", ".">>) >>,
        blanks |-> << <<"a", "m", "e", "n", "i", "t", "i", "e", "s">>,
                      <<"e", "x", "e", "r", "c", "i", "s", "e">> >>] >>

\* The drafts an author saves from the admin panel (handleSave passes
\* title, transcript, audioUrl and Number(timeLimit)).
Drafts ==
    { [title |-> "t1", transcript |-> <<"[", "a", "]">>,
       audioUrl |-> "u1", timeLimitSec |-> 0],
      [title |-> "t2", transcript |-> <<"b", "[", "a", "]", "[", "B", " ", "]">>,
       audioUrl |-> "u2", timeLimitSec |-> MaxTicks] }

\* What a user types into a blank.
TypedTexts == { <<>>, <<" ", "A">>, <<"b">> }

\* addQuestion's newQ: id "q" + Date.now() is modelled by the clock value.
NewQuestion(t, d) ==
    LET p == Parse(d.transcript)
    IN  [id |-> t,
         title |-> IF d.title # "" THEN d.title ELSE "Custom question",
         audioUrl |-> d.audioUrl,
         timeLimitSec |-> Some(d.timeLimitSec),
         tokens |-> p.tokens,
         blanks |-> p.blanks]

\* updateQuestion's replacement record { ...q, title: title || q.title, ... }
UpdatedQuestion(q, d) ==
    LET p == Parse(d.transcript)
    IN  [q EXCEPT !.title = IF d.title # "" THEN d.title ELSE q.title,
                  !.audioUrl = d.audioUrl,
                  !.timeLimitSec = Some(d.timeLimitSec),
                  !.tokens = p.tokens,
                  !.blanks = p.blanks]

\* A filter that removes only the first record with the id.
FilterOutFirst(qs, id) ==
    LET ks == {k \in DOMAIN qs : qs[k].id = id}
    IN  IF ks = {} THEN qs
        ELSE LET first == CHOOSE k \in ks : \A j \in ks : k <= j
             IN  SubSeq(qs, 1, first - 1) \o SubSeq(qs, first + 1, Len(qs))

\* questions.filter((q) => q.id !== id)
RECURSIVE FilterOut(_, _)
FilterOut(qs, id) ==
    IF qs = <<>> THEN <<>>
    ELSE IF Head(qs).id # id THEN <<Head(qs)>> \o FilterOut(Tail(qs), id)
         ELSE FilterOut(Tail(qs), id)

----------------------------------------------------------------------------
(* Durable storage: localStorage["fib-questions"] *)

Absent == [kind |-> "absent", value |-> <<>>]
EmptyText == [kind |-> "empty", value |-> <<>>]
Malformed == [kind |-> "malformed", value |-> <<>>]
JSONStringify(coll) == [kind |-> "json", value |-> coll]

\* Collections a previous run (or a hand edit) left in storage: an empty
\* array, an untimed question, and an untimed question followed by one
\* whose time limit is 0.
UntimedQuestion ==
    [NewQuestion(SeedId, [title |-> "t1", transcript |-> <<"[", "a", "]">>,
                          audioUrl |-> "u1", timeLimitSec |-> 0])
        EXCEPT !.timeLimitSec = Null]
ZeroQuestion ==
    NewQuestion(SeedId + 1, [title |-> "t1", transcript |-> <<"[", "a", "]">>,
                             audioUrl |-> "u1", timeLimitSec |-> 0])
StoredCollections == { <<>>, <<UntimedQuestion>>, <<UntimedQuestion, ZeroQuestion>> }

StorageContents ==
    {Absent, EmptyText, Malformed} \cup {JSONStringify(c) : c \in StoredCollections}

\* saved ? ... : ...   (null and "" are falsy)
SavedIsTruthy(s) == s.kind \notin {"absent", "empty"}
\* JSON.parse throws a SyntaxError on text that is not JSON.
JSONParseThrows(s) == s.kind = "malformed"
JSONParse(s) == s.value

----------------------------------------------------------------------------
(* Session: handlers and effects *)

EmptyAnswers == [i \in {} |-> <<>>]

Session == [answers |-> answers, checked |-> checked, score |-> score, timeLeft |-> timeLeft]

\* q.timeLimitSec ?? null
TimeLimitOf(q) == q.timeLimitSec

handleCheck(s, q) ==
    [s EXCEPT !.score = CountCorrect(s.answers, q), !.checked = TRUE]

handleShowAnswers(s, q) ==
    [s EXCEPT !.answers = [i \in 0..(blanksCount(q) - 1) |-> q.blanks[i + 1]],
              !.checked = TRUE]

\* A reset handler that forgets setTimeLeft.
handleResetKeepsTimer(s, q) ==
    [answers |-> EmptyAnswers, checked |-> FALSE, score |-> 0, timeLeft |-> s.timeLeft]

handleReset(s, q) ==
    [answers |-> EmptyAnswers, checked |-> FALSE, score |-> 0, timeLeft |-> TimeLimitOf(q)]

\* A reset effect that forgets setScore(0).
ResetEffectKeepsScore(s, q) ==
    [answers |-> EmptyAnswers, checked |-> FALSE, score |-> s.score, timeLeft |-> TimeLimitOf(q)]

\* useEffect(..., [index, q]): the session reset
ResetEffect(s, q) ==
    [answers |-> EmptyAnswers, checked |-> FALSE, score |-> 0, timeLeft |-> TimeLimitOf(q)]

\* An expiry effect that forgets the !checked test.
ExpiryFiresWhenChecked(s) == s.timeLeft = Some(0)

\* useEffect(..., [timeLeft, checked]): the timer expiry
ExpiryFires(s) == s.timeLeft = Some(0) /\ ~s.checked
ExpiryEffect(s, q) == IF ExpiryFires(s) THEN handleCheck(s, q) ELSE s

\* An interval effect without the test for 0.
IntervalRunsAtZero(t) == t # Null /\ ~(t[1] < 0)

\* useEffect(..., [timeLeft]): an interval runs while timeLeft is a positive number
IntervalRuns(t) == t # Null /\ t[1] # 0 /\ ~(t[1] < 0)
\* setTimeLeft((t) => (t == null ? null : t - 1))
TickUpdate(t) == IF t = Null THEN Null ELSE Some(t[1] - 1)

setAnswer(a, i, val) == [k \in DOMAIN a \cup {i} |-> IF k = i THEN val ELSE a[k]]

nextIndex(i, n) == IF n - 1 < i + 1 THEN n - 1 ELSE i + 1
\* A prevQ that steps the wrong way: Math.max(0, i + 1)
prevIndexForward(i) == IF 0 > i + 1 THEN 0 ELSE i + 1
prevIndex(i) == IF 0 > i - 1 THEN 0 ELSE i - 1
nextDisabled(i, n) == i = n - 1
prevDisabled(i) == i = 0
checkDisabled(c) == c

\* A render with state (qs, ix, s), then the effects: q = questions[index]
\* throws on q.blanks when q is undefined; otherwise the reset effect runs
\* when index or q changed, and then the expiry effect.
Commit(qs, ix, s, depsChanged) ==
    /\ questions' = qs
    /\ index' = ix
    /\ IF ix + 1 \in DOMAIN qs
       THEN LET q == qs[ix + 1]
                s1 == IF depsChanged THEN ResetEffect(s, q) ELSE s
                s2 == ExpiryEffect(s1, q)
            IN  /\ pc' = "running"
                /\ answers' = s2.answers
                /\ checked' = s2.checked
                /\ score' = s2.score
                /\ timeLeft' = s2.timeLeft
       ELSE /\ pc' = "crashed"
            /\ answers' = s.answers
            /\ checked' = s.checked
            /\ score' = s.score
            /\ timeLeft' = s.timeLeft

ActiveQ == questions[index + 1]

\* The interval effect has [timeLeft] as its only dependency: the interval is
\* cleared and scheduled again in a render whose timeLeft differs from the
\* render before it, and in no other.  An event renders with the handler's
\* state s and, when the reset effect ran, once more with the reset state.
IntervalAfter(cause, qs, ix, s, depsChanged) ==
    IF intervalFrom = "unfollowed" THEN "unfollowed"
    ELSE IF ix + 1 \notin DOMAIN qs THEN "none"
    ELSE LET q == qs[ix + 1]
             s1 == IF depsChanged THEN ResetEffect(s, q) ELSE s
             rescheduled == s.timeLeft # timeLeft \/ s1.timeLeft # s.timeLeft
         IN  IF ~IntervalRuns(s1.timeLeft) THEN "none"
             ELSE IF rescheduled THEN "session"
             ELSE IF depsChanged \/ cause = "Reset" THEN cause
             ELSE intervalFrom

CommitFrom(cause, qs, ix, s, depsChanged) ==
    /\ Commit(qs, ix, s, depsChanged)
    /\ intervalFrom' = IntervalAfter(cause, qs, ix, s, depsChanged)
    /\ last' = cause

NoArg == [id |-> 0, given |-> {}]
\* The fields of a draft other than the transcript.
DraftFields == {"title", "audioUrl", "timeLimitSec"}

BlankIndices(q) == {q.tokens[k].blank : k \in {j \in DOMAIN q.tokens : ~IsLiteral(q.tokens[j])}}

----------------------------------------------------------------------------
(* Actions *)

Init ==
    /\ pc = "boot"
    /\ stored \in StorageContents
    /\ now = ClockStart
    /\ questions = <<>>
    /\ index = 0
    /\ answers = EmptyAnswers
    /\ checked = FALSE
    /\ score = 0
    /\ timeLeft = Null
    /\ last = "none"
    /\ transcript = <<>>
    /\ editQuestion = <<>>
    /\ panel = [phase |-> "idle", authored |-> EmptyAnswers]
    /\ arg = NoArg
    /\ intervalFrom = "unfollowed"
    /\ pending = Null

\* First render of ListeningFIBApp: the questions initializer, then the effects.
Mount ==
    /\ pc = "boot"
    /\ arg' = NoArg
    /\ UNCHANGED <<stored, now, panelVars, pending>>
    /\ IF SavedIsTruthy(stored) /\ JSONParseThrows(stored)
       THEN /\ pc' = "crashed"
            /\ last' = "Mount"
            /\ UNCHANGED <<questions, sessionVars, intervalFrom>>
       ELSE CommitFrom("Mount",
                       IF SavedIsTruthy(stored) THEN JSONParse(stored) ELSE SAMPLE_QUESTIONS,
                       0, Session, TRUE)

TypeAnswer ==
    /\ pc = "running"
    /\ \E i \in BlankIndices(ActiveQ), val \in TypedTexts :
          CommitFrom("TypeAnswer", questions, index,
                     [Session EXCEPT !.answers = setAnswer(answers, i, val)], FALSE)
    /\ arg' = NoArg
    /\ UNCHANGED <<stored, now, panelVars, pending>>

Check ==
    /\ pc = "running"
    /\ CommitFrom("Check", questions, index,
                  IF checkDisabled(checked) THEN Session ELSE handleCheck(Session, ActiveQ), FALSE)
    /\ arg' = NoArg
    /\ UNCHANGED <<stored, now, panelVars, pending>>

ShowAnswers ==
    /\ pc = "running"
    /\ CommitFrom("ShowAnswers", questions, index, handleShowAnswers(Session, ActiveQ), FALSE)
    /\ arg' = NoArg
    /\ UNCHANGED <<stored, now, panelVars, pending>>

Reset ==
    /\ pc = "running"
    /\ CommitFrom("Reset", questions, index, handleReset(Session, ActiveQ), FALSE)
    /\ arg' = NoArg
    /\ UNCHANGED <<stored, now, panelVars, pending>>

NextQ ==
    /\ pc = "running"
    /\ LET ix == IF nextDisabled(index, Len(questions)) THEN index
                 ELSE nextIndex(index, Len(questions))
       IN  CommitFrom("Next", questions, ix, Session, ix # index)
    /\ arg' = NoArg
    /\ UNCHANGED <<stored, now, panelVars, pending>>

PrevQ ==
    /\ pc = "running"
    /\ LET ix == IF prevDisabled(index) THEN index ELSE prevIndex(index)
       IN  CommitFrom("Previous", questions, ix, Session, ix # index)
    /\ arg' = NoArg
    /\ UNCHANGED <<stored, now, panelVars, pending>>

\* One firing of the interval of lines 172-177; the model follows the first
\* MaxTicks seconds of an attempt.
TimerTick ==
    /\ pc = "running"
    /\ IntervalRuns(timeLeft)
    /\ TimeLimitOf(ActiveQ) # Null
    /\ TimeLimitOf(ActiveQ)[1] - timeLeft[1] < MaxTicks
    /\ CommitFrom("TimerTick", questions, index,
                  [Session EXCEPT !.timeLeft = TickUpdate(timeLeft)], FALSE)
    /\ arg' = NoArg
    /\ UNCHANGED <<stored, now, panelVars, pending>>

\* A saveQuestions that forgets localStorage.setItem.
SaveQuestionsUnpersisted(cause, newQ, depsChanged) ==
    /\ pending # Null => pending[1] < MaxPending
    /\ CommitFrom(cause, newQ, index, Session, depsChanged)
    /\ stored' = stored
    /\ pending' = IF pending = Null THEN Null ELSE Some(pending[1] + 1)

\* saveQuestions(newQ): setQuestions, localStorage.setItem, and the request
\* sent by fetch, which settles later (RemoteOk, RemoteNotOk, RemoteError).
\* Requests are counted where pending is followed, up to MaxPending at a time.
SaveQuestions(cause, newQ, depsChanged) ==
    /\ pending # Null => pending[1] < MaxPending
    /\ CommitFrom(cause, newQ, index, Session, depsChanged)
    /\ stored' = JSONStringify(newQ)
    /\ pending' = IF pending = Null THEN Null ELSE Some(pending[1] + 1)

AddQuestion ==
    /\ pc = "running"
    /\ Len(questions) < MaxQuestions
    /\ \E d \in Drafts, t \in now..MaxClock :
          /\ now' = t
          /\ SaveQuestions("Add", Append(questions, NewQuestion(t, d)), FALSE)
    /\ arg' = NoArg
    /\ UNCHANGED panelVars

\* editQuestion.id: a question of the collection, or one deleted since it
\* was opened for editing.
EditableIds == {questions[k].id : k \in DOMAIN questions} \cup {MaxClock + 1}

\* questions.map(...) builds a new record for every question with this id,
\* so q = questions[index] changes exactly when the active question has it.
UpdateQuestion ==
    /\ pc = "running"
    /\ \E id \in EditableIds, d \in Drafts :
          /\ SaveQuestions("Update",
                           [k \in DOMAIN questions |->
                               IF questions[k].id = id THEN UpdatedQuestion(questions[k], d)
                               ELSE questions[k]],
                           ActiveQ.id = id)
          /\ arg' = [id |-> id, given |-> DraftFields]
    /\ UNCHANGED <<now, panelVars>>

\* questions.filter(...): the record at position index is another one exactly
\* when a record at or before that position was removed.
DeleteQuestion ==
    /\ pc = "running"
    /\ \E k \in DOMAIN questions :
          LET id == questions[k].id
          IN  /\ SaveQuestions("Delete", FilterOut(questions, id),
                                \E j \in 1..(index + 1) : questions[j].id = id)
              /\ arg' = [id |-> id, given |-> {}]
    /\ UNCHANGED <<now, panelVars>>

Next ==
    \/ Mount
    \/ TypeAnswer
    \/ Check
    \/ ShowAnswers
    \/ Reset
    \/ NextQ
    \/ PrevQ
    \/ TimerTick
    \/ AddQuestion
    \/ UpdateQuestion
    \/ DeleteQuestion

Spec == Init /\ [][Next]_vars

----------------------------------------------------------------------------
(* The countdown of one attempt, with the interval firing as long as it is set *)

\* Storage holds one question that an earlier run saved from a draft: its
\* time limit is 0 or MaxTicks seconds.
InitLive ==
    /\ pc = "boot"
    /\ stored \in {JSONStringify(<<NewQuestion(SeedId, d)>>) : d \in Drafts}
    /\ now = ClockStart
    /\ questions = <<>>
    /\ index = 0
    /\ answers = EmptyAnswers
    /\ checked = FALSE
    /\ score = 0
    /\ timeLeft = Null
    /\ last = "none"
    /\ transcript = <<>>
    /\ editQuestion = <<>>
    /\ panel = [phase |-> "idle", authored |-> EmptyAnswers]
    /\ arg = NoArg
    /\ intervalFrom = "unfollowed"
    /\ pending = Null

NextLive ==
    \/ Mount
    \/ TypeAnswer
    \/ Check
    \/ ShowAnswers
    \/ TimerTick

\* The first render happens, and a set interval fires after its second
\* unless it is cleared first.
SpecLive ==
    /\ InitLive
    /\ [][NextLive]_vars
    /\ WF_vars(Mount)
    /\ WF_vars(TimerTick)

----------------------------------------------------------------------------
(* The remote save: requests in flight and their outcomes *)

InitStore ==
    /\ pc = "boot"
    /\ stored \in StorageContents
    /\ now = ClockStart
    /\ questions = <<>>
    /\ index = 0
    /\ answers = EmptyAnswers
    /\ checked = FALSE
    /\ score = 0
    /\ timeLeft = Null
    /\ last = "none"
    /\ transcript = <<>>
    /\ editQuestion = <<>>
    /\ panel = [phase |-> "idle", authored |-> EmptyAnswers]
    /\ arg = NoArg
    /\ intervalFrom = "unfollowed"
    /\ pending = Some(0)

\* A request of saveQuestions settles; nothing but console.warn follows
\* (lines 239 and 241), whatever has happened to the app since it was sent.
RemoteSettles(outcome) ==
    /\ pending # Null
    /\ pending[1] > 0
    /\ pending' = Some(pending[1] - 1)
    /\ last' = outcome
    /\ arg' = NoArg
    /\ UNCHANGED <<pc, stored, now, questions, sessionVars, panelVars, intervalFrom>>

\* res.ok
RemoteOk == RemoteSettles("RemoteOk")
\* !res.ok: console.warn('Server save returned', res.status)
RemoteNotOk == RemoteSettles("RemoteNotOk")
\* fetch rejects: console.warn('Could not save to server:', err)
RemoteError == RemoteSettles("RemoteError")

NextStore ==
    \/ Mount
    \/ TypeAnswer
    \/ NextQ
    \/ AddQuestion
    \/ UpdateQuestion
    \/ DeleteQuestion
    \/ RemoteOk
    \/ RemoteNotOk
    \/ RemoteError

SpecStore == InitStore /\ [][NextStore]_vars

----------------------------------------------------------------------------
(* The interval of the countdown across sessions *)

InitTimer ==
    /\ pc = "boot"
    /\ stored = Absent
    /\ now = ClockStart
    /\ questions = <<>>
    /\ index = 0
    /\ answers = EmptyAnswers
    /\ checked = FALSE
    /\ score = 0
    /\ timeLeft = Null
    /\ last = "none"
    /\ transcript = <<>>
    /\ editQuestion = <<>>
    /\ panel = [phase |-> "idle", authored |-> EmptyAnswers]
    /\ arg = NoArg
    /\ intervalFrom = "none"
    /\ pending = Null

NextTimer ==
    \/ Mount
    \/ TypeAnswer
    \/ Reset
    \/ NextQ
    \/ PrevQ
    \/ TimerTick
    \/ AddQuestion
    \/ DeleteQuestion

SpecTimer == InitTimer /\ [][NextTimer]_vars

----------------------------------------------------------------------------
(* Grading one blank: every short entry against every short expected answer *)

GradeAlphabet == {"a", "A", " "}
GradeTexts == UNION {[1..n -> GradeAlphabet] : n \in 0..MaxGradeLen}

\* A stored question without a time limit whose one blank expects e.
GradeQuestion(e) ==
    [NewQuestion(SeedId, [title |-> "t1", transcript |-> <<"[">> \o e \o <<"]">>,
                          audioUrl |-> "u1", timeLimitSec |-> 0])
        EXCEPT !.timeLimitSec = Null]

InitGrade ==
    /\ pc = "boot"
    /\ stored \in {JSONStringify(<<GradeQuestion(e)>>) : e \in GradeTexts \ {<<>>}}
    /\ now = ClockStart
    /\ questions = <<>>
    /\ index = 0
    /\ answers = EmptyAnswers
    /\ checked = FALSE
    /\ score = 0
    /\ timeLeft = Null
    /\ last = "none"
    /\ transcript = <<>>
    /\ editQuestion = <<>>
    /\ panel = [phase |-> "idle", authored |-> EmptyAnswers]
    /\ arg = NoArg
    /\ intervalFrom = "unfollowed"
    /\ pending = Null

\* BlankInput onChange with any short text, the empty text included.
TypeAnyAnswer ==
    /\ pc = "running"
    /\ \E i \in BlankIndices(ActiveQ), val \in GradeTexts :
          CommitFrom("TypeAnswer", questions, index,
                     [Session EXCEPT !.answers = setAnswer(answers, i, val)], FALSE)
    /\ arg' = NoArg
    /\ UNCHANGED <<stored, now, panelVars, pending>>

NextGrade ==
    \/ Mount
    \/ TypeAnyAnswer
    \/ Check
    \/ Reset

SpecGrade == InitGrade /\ [][NextGrade]_vars

----------------------------------------------------------------------------
(* The admin panel: authoring a transcript, saving it, reopening it *)

Alphabet == {"[", "]", "a", "\n"}
\* Longer transcripts: two bracket spans side by side, and two spans with
\* text before, between and after them.
SpannedTranscripts ==
    { <<"[", "a", "]", "[", "a", "]">>,
      <<"a", "[", "a", "]", "\n", "[", "]", "]", "a">> }
Transcripts == UNION {[1..n -> Alphabet] : n \in 0..MaxLen} \cup SpannedTranscripts

DefaultTimeLimit == 90

\* Number(timeLimit): Number(null) is 0
NumberOf(t) == IF t = Null THEN 0 ELSE t[1]

\* The panel's fields when handleSave runs: those of the question being
\* edited, or a new title and URL with the default time limit.
PanelDraft ==
    IF editQuestion # <<>>
    THEN [title |-> editQuestion[1].title, transcript |-> transcript,
          audioUrl |-> editQuestion[1].audioUrl,
          timeLimitSec |-> NumberOf(editQuestion[1].timeLimitSec)]
    ELSE [title |-> "t1", transcript |-> transcript, audioUrl |-> "u1",
          timeLimitSec |-> DefaultTimeLimit]

\* The fields of the panel the author has a value in: the time limit field
\* of a question without a limit opens empty.
PanelGiven ==
    {"title", "audioUrl"} \cup
    (IF editQuestion # <<>> /\ editQuestion[1].timeLimitSec = Null THEN {}
     ELSE {"timeLimitSec"})

\* if (!transcript || !audioUrl || !title) return alert(...)
SaveRejected(d) == d.transcript = <<>> \/ d.audioUrl = "" \/ d.title = ""

InitPanel ==
    /\ pc = "running"
    /\ stored \in {Absent, JSONStringify(<<UntimedQuestion>>)}
    /\ now = ClockStart
    /\ questions = IF SavedIsTruthy(stored) THEN JSONParse(stored) ELSE SAMPLE_QUESTIONS
    /\ index = 0
    /\ answers = EmptyAnswers
    /\ checked = FALSE
    /\ score = 0
    /\ timeLeft = TimeLimitOf(questions[1])
    /\ last = "Mount"
    /\ transcript \in Transcripts
    /\ editQuestion = <<>>
    /\ panel = [phase |-> "typed", authored |-> EmptyAnswers]
    /\ arg = NoArg
    /\ intervalFrom = "unfollowed"
    /\ pending = Null

\* AdminPanel.handleSave
PanelSave ==
    /\ pc = "running"
    /\ panel.phase \in {"typed", "editing"}
    /\ LET d == PanelDraft
       IN  IF SaveRejected(d)
           THEN /\ panel' = [panel EXCEPT !.phase = "rejected"]
                /\ UNCHANGED <<pc, stored, now, questions, sessionVars, last,
                               transcript, editQuestion, arg, intervalFrom, pending>>
           ELSE /\ transcript' = <<>>
                /\ editQuestion' = <<>>
                /\ IF editQuestion # <<>>
                   THEN LET id == editQuestion[1].id
                        IN  /\ SaveQuestions("Update",
                                             [k \in DOMAIN questions |->
                                               IF questions[k].id = id
                                               THEN UpdatedQuestion(questions[k], d)
                                               ELSE questions[k]],
                                             ActiveQ.id = id)
                            /\ arg' = [id |-> id, given |-> PanelGiven]
                            /\ now' = now
                            /\ panel' = [phase |-> "saved",
                                         authored |-> setAnswer(panel.authored, id, transcript)]
                   ELSE /\ Len(questions) < MaxQuestions
                        /\ \E t \in now..MaxClock :
                              /\ now' = t
                              /\ SaveQuestions("Add", Append(questions, NewQuestion(t, d)), FALSE)
                              /\ panel' = [phase |-> "saved",
                                           authored |-> setAnswer(panel.authored, t, transcript)]
                        /\ arg' = NoArg

\* ManageQuestions "Edit": setEditQuestion(q), and the AdminPanel that mounts
\* derives its transcript from the question's tokens and blanks.
PanelEdit ==
    /\ pc = "running"
    /\ panel.phase \in {"saved", "rejected"}
    /\ \E k \in DOMAIN questions :
          /\ editQuestion' = <<questions[k]>>
          /\ transcript' = Render(questions[k])
    /\ panel' = [panel EXCEPT !.phase = "editing"]
    /\ UNCHANGED <<pc, stored, now, questions, sessionVars, last, arg, intervalFrom, pending>>

NextPanel ==
    \/ PanelSave
    \/ PanelEdit

SpecParse == InitPanel /\ [][NextPanel]_vars

----------------------------------------------------------------------------
(* Claims *)

Revealed(q) == [i \in 0..(blanksCount(q) - 1) |-> q.blanks[i + 1]]

\* C1: after ShowAnswers every blank's entry is its expected answer,
\* checked is true and score is the number of blanks of the active question.
C1_ShowAnswersScoresAll ==
    (pc = "running" /\ last = "ShowAnswers") =>
        /\ answers = Revealed(ActiveQ)
        /\ checked
        /\ score = blanksCount(ActiveQ)

\* C2: after any Next, Previous, add, update or delete, activeIndex is a
\* position of the question collection.
C2_ActiveIndexInRange ==
    last \in {"Next", "Previous", "Add", "Update", "Delete"} =>
        (0 <= index /\ index < Len(questions))

\* C3: once checked is true, no TimerTick, TypeAnswer, Check or ShowAnswers
\* (whatever timeRemaining is or becomes) changes checked or score: the
\* expiry Check does not fire again.
C3_TimerCheckAtMostOnce ==
    [][(checked /\ last' \in {"TimerTick", "TypeAnswer", "Check", "ShowAnswers"})
          => (checked' /\ score' = score)]_vars

\* The timer reached 0 on a session that was already checked and whose
\* score is not what a Check would compute now.
C3_Witness ==
    /\ pc = "running"
    /\ last = "TimerTick"
    /\ checked
    /\ timeLeft = Some(0)
    /\ score # CountCorrect(answers, ActiveQ)

\* C4: startup completes without an error state for every content of the
\* storage key, and loads the seed collection when the content is absent or
\* unparseable.
C4_StartupNeverCrashes ==
    last = "Mount" =>
        /\ pc = "running"
        /\ (stored.kind \in {"absent", "empty", "malformed"} => questions = SAMPLE_QUESTIONS)

\* C5: whenever checked is true, score is the number of blanks of the active
\* question that isCorrect accepts on the current answers.
C5_ScoreIsCorrectCount ==
    (pc = "running" /\ checked) => score = CountCorrect(answers, ActiveQ)

\* C6: add, update and delete leave activeIndex, userAnswers, checked, score
\* and timeRemaining as they were, and the active question keeps its id
\* unless it was the one deleted.
C6_StoreKeepsSession ==
    [][last' \in {"Add", "Update", "Delete"} =>
          /\ UNCHANGED sessionVars
          /\ \/ /\ index' + 1 \in DOMAIN questions'
                /\ questions'[index' + 1].id = ActiveQ.id
             \/ /\ last' = "Delete"
                /\ \A k \in DOMAIN questions' : questions'[k].id # ActiveQ.id]_vars

\* C7 as claimed: a Next or Previous that moves leaves userAnswers empty,
\* checked false, score 0 and timeRemaining at the new question's limit.
C7_NavigationResets ==
    [][(last' \in {"Next", "Previous"} /\ index' # index) =>
          /\ answers' = EmptyAnswers
          /\ ~checked'
          /\ score' = 0
          /\ timeLeft' = TimeLimitOf(ActiveQ')]_vars

\* C7 amended: a Next or Previous that moves leaves userAnswers empty,
\* score 0 and timeRemaining at the new question's limit; checked is false
\* unless that limit is 0, when the expiry Check has already run and checked
\* is true.
C7_NavigationResetsThenExpires ==
    [][(last' \in {"Next", "Previous"} /\ index' # index) =>
          /\ answers' = EmptyAnswers
          /\ checked' = (TimeLimitOf(ActiveQ') = Some(0))
          /\ score' = 0
          /\ timeLeft' = TimeLimitOf(ActiveQ')]_vars

\* Next has moved to a question whose limit is 0: the session is reset and
\* already checked.
C7_Witness ==
    /\ pc = "running"
    /\ last = "Next"
    /\ index = 1
    /\ answers = EmptyAnswers
    /\ timeLeft = Some(0)
    /\ checked

\* What Reset makes of the session, expiry effect included.
AfterReset(s, q) == ExpiryEffect(handleReset(s, q), q)

\* C8 as claimed: Reset leaves userAnswers empty, checked false, score 0 and
\* timeRemaining at the active question's limit, keeps activeIndex and the
\* collection, and a second Reset changes nothing.
C8_ResetReturnsToStart ==
    [][last' = "Reset" =>
          /\ answers' = EmptyAnswers
          /\ ~checked'
          /\ score' = 0
          /\ timeLeft' = TimeLimitOf(ActiveQ)
          /\ index' = index
          /\ questions' = questions
          /\ AfterReset(Session, ActiveQ)' = Session']_vars

\* C8 amended: as claimed, except that checked is true after Reset when the
\* active question's limit is 0 (the expiry Check runs at once).
C8_ResetReturnsToStartThenExpires ==
    [][last' = "Reset" =>
          /\ answers' = EmptyAnswers
          /\ checked' = (TimeLimitOf(ActiveQ) = Some(0))
          /\ score' = 0
          /\ timeLeft' = TimeLimitOf(ActiveQ)
          /\ index' = index
          /\ questions' = questions
          /\ AfterReset(Session, ActiveQ)' = Session']_vars

\* Reset has acted on a question whose limit is 0: the session is reset and
\* checked again at once.
C8_Witness ==
    /\ pc = "running"
    /\ last = "Reset"
    /\ answers = EmptyAnswers
    /\ timeLeft = Some(0)
    /\ TimeLimitOf(ActiveQ) = Some(0)
    /\ checked

\* C9: Previous at index 0 and Next at the last index leave the session as
\* it is; otherwise Previous and Next move activeIndex by exactly one.
C9_NavigationClamped ==
    [][/\ last' = "Previous" =>
            IF index = 0 THEN UNCHANGED sessionVars ELSE index' = index - 1
       /\ last' = "Next" =>
            IF index = Len(questions) - 1 THEN UNCHANGED sessionVars
            ELSE index' = index + 1]_vars

\* Next was asked for at the last of several questions and did nothing: a
\* Next that moves would have emptied the answers.
C9_Witness ==
    /\ pc = "running"
    /\ last = "Next"
    /\ Len(questions) > 1
    /\ index = Len(questions) - 1
    /\ answers # EmptyAnswers

\* C10: rendering the parse of a transcript (literal tokens as they are,
\* each placeholder's answer in brackets, in token order) gives the
\* transcript back: for the transcript typed in the panel, and for a saved
\* question reopened for editing.
C10_ParserRoundTrip ==
    /\ panel.phase = "typed" =>
          JoinTokens(Parse(transcript).tokens, Parse(transcript).blanks) = transcript
    /\ (panel.phase = "editing" /\ editQuestion[1].id \in DOMAIN panel.authored) =>
          transcript = panel.authored[editQuestion[1].id]

\* A saved transcript with literal text after a bracket span was reopened.
C10_Witness ==
    /\ panel.phase = "editing"
    /\ editQuestion[1].id \in DOMAIN panel.authored
    /\ Len(editQuestion[1].blanks) = 1
    /\ Len(editQuestion[1].tokens) = 2
    /\ IsLiteral(editQuestion[1].tokens[2])

HasBracket(s) == \E k \in DOMAIN s : s[k] \in {"[", "]"}

\* C11: no answer that the parser placed in the blanks of a question of the
\* collection contains a '[' or a ']' character.
C11_AnswersHaveNoBrackets ==
    \A k \in DOMAIN questions : \A j \in DOMAIN questions[k].blanks :
        ~HasBracket(questions[k].blanks[j])

PlaceholderIndices(q) ==
    LET ph == SelectSeq(q.tokens, LAMBDA t : ~IsLiteral(t))
    IN  [j \in DOMAIN ph |-> ph[j].blank]

TokenInvariant(q) ==
    /\ PlaceholderIndices(q) = [j \in 1..Len(q.blanks) |-> j - 1]
    /\ \A j \in DOMAIN q.tokens : IsLiteral(q.tokens[j]) => q.tokens[j].text # <<>>

\* C12: every question of the collection satisfies the token invariant: the
\* blank indices of its placeholder tokens, in token order, are exactly
\* 0, 1, ..., len(blanks) - 1, and no literal token is the empty string.
C12_TokenInvariant ==
    \A k \in DOMAIN questions : TokenInvariant(questions[k])

\* A saved question whose transcript had two bracket spans side by side, with
\* nothing before the first and nothing between them.
C12_Witness ==
    /\ last \in {"Add", "Update"}
    /\ \E k \in DOMAIN questions :
          /\ Len(questions[k].blanks) = 2
          /\ Len(questions[k].tokens) = 2

\* The text between the first and the last character of s that is not
\* white space.
Core(s) ==
    LET ink == {k \in DOMAIN s : ~IsWhiteSpace(s[k])}
    IN  IF ink = {} THEN <<>>
        ELSE SubSeq(s, CHOOSE k \in ink : \A j \in ink : k <= j,
                       CHOOSE k \in ink : \A j \in ink : k >= j)

SameLetter(c, d) == c = d \/ {c, d} = {"a", "A"} \/ {c, d} = {"b", "B"}

SameIgnoringCase(s, t) ==
    Len(s) = Len(t) /\ \A k \in DOMAIN s : SameLetter(s[k], t[k])

Matches(a, q, i) ==
    /\ i \in DOMAIN a
    /\ Len(a[i]) > 0
    /\ SameIgnoringCase(Core(a[i]), Core(q.blanks[i + 1]))

\* C13: isCorrect(i) holds exactly when the entry for blank i is present,
\* non-empty and equal to the expected answer once both are stripped of
\* surrounding white space and compared without regard to case; a Check
\* scores the number of such blanks.
C13_IsCorrectCharacterised ==
    [][ /\ pc' = "running" =>
            \A i \in BlankIndices(ActiveQ') :
                isCorrect(answers', ActiveQ', i) <=> Matches(answers', ActiveQ', i)
        /\ (last' = "Check" /\ ~checked) =>
            score' = Cardinality({i \in BlankIndices(ActiveQ) : Matches(answers, ActiveQ, i)})
      ]_vars

\* A Check found an entry that was typed and then cleared, against an
\* expected answer of white space only, and did not count it.
C13_Witness ==
    /\ pc = "running"
    /\ last = "Check"
    /\ checked
    /\ 0 \in DOMAIN answers
    /\ answers[0] = <<>>
    /\ Core(ActiveQ.blanks[1]) = <<>>
    /\ score = 0

\* C14: an add gives the new question an id that no question of the
\* collection has and appends it at the end, so the ids of the collection
\* are pairwise distinct.
C14_AddAssignsFreshId ==
    [][last' = "Add" =>
          /\ Len(questions') = Len(questions) + 1
          /\ SubSeq(questions', 1, Len(questions)) = questions
          /\ \A k \in DOMAIN questions : questions[k].id # questions'[Len(questions')].id
          /\ \A j, k \in DOMAIN questions' : questions'[j].id = questions'[k].id => j = k
      ]_vars

Ids(qs) == [k \in DOMAIN qs |-> qs[k].id]

\* C15: an update leaves the sequence of ids as it was and changes no record
\* with another id; a delete removes exactly the records with the given id
\* and keeps the others as they were, in order; with an id that no record
\* has, the collection is unchanged.
C15_UpdateDeleteTouchOnlyTheId ==
    [][ /\ last' = "Update" =>
            /\ Ids(questions') = Ids(questions)
            /\ \A k \in DOMAIN questions :
                   questions[k].id # arg'.id => questions'[k] = questions[k]
        /\ last' = "Delete" =>
            /\ questions' = SelectSeq(questions, LAMBDA q : q.id # arg'.id)
            /\ \A k \in DOMAIN questions' : questions'[k].id # arg'.id
        /\ (last' \in {"Update", "Delete"}
              /\ \A k \in DOMAIN questions : questions[k].id # arg'.id) =>
            questions' = questions
      ]_vars

\* The second of two questions was updated, and the first has another id.
C15_Witness ==
    /\ pc = "running"
    /\ last = "Update"
    /\ Len(questions) = 2
    /\ questions[2].id = arg.id
    /\ questions[1].id # arg.id
    /\ questions[2].title = "t2"
    /\ questions[1].title # "t2"

RemoteOutcomes == {"RemoteOk", "RemoteNotOk", "RemoteError"}

\* C16: after every add, update or delete the collection in durable storage
\* is the collection in memory, and a remote save that settles, with any
\* outcome and at any later point, changes neither of them nor the session.
C16_StoredIsInMemory ==
    [][ /\ last' \in {"Add", "Update", "Delete"} =>
            /\ SavedIsTruthy(stored')
            /\ ~JSONParseThrows(stored')
            /\ JSONParse(stored') = questions'
        /\ last' \in RemoteOutcomes =>
            /\ questions' = questions
            /\ stored' = stored
            /\ index' = index
            /\ answers' = answers
            /\ checked' = checked
            /\ score' = score
            /\ timeLeft' = timeLeft
      ]_vars

\* The remote save of an earlier operation failed after a later operation
\* had changed the collection, and the later operation's save is still out.
C16_Witness ==
    /\ pc = "running"
    /\ last = "RemoteError"
    /\ pending = Some(1)
    /\ Len(questions) = 2
    /\ stored = JSONStringify(questions)

\* C17: an update keeps the id of the record and, for each of title,
\* audioUrl and timeLimitSec that the draft does not specify, the value the
\* record had.
C17_UpdateMergesUnspecified ==
    [][last' = "Update" =>
          \A k \in DOMAIN questions :
              questions[k].id = arg'.id =>
                  /\ questions'[k].id = questions[k].id
                  /\ \A f \in DraftFields \ arg'.given :
                         questions'[k][f] = questions[k][f]
      ]_vars

\* C18: with fair ticks and no Next, Previous or Reset, an unchecked session
\* with a countdown leads to timeRemaining 0 with checked true, and whenever
\* checked becomes true the score is the number of correct blanks for the
\* answers entered at that moment.
C18_CountdownEndsChecked ==
    /\ (pc = "running" /\ timeLeft # Null /\ timeLeft[1] >= 0 /\ ~checked)
          ~> (timeLeft = Some(0) /\ checked)
    /\ [][(pc' = "running" /\ ~checked /\ checked') =>
              score' = CountCorrect(answers', ActiveQ')]_vars

\* C19: while the active question has a time limit L >= 0, timeRemaining is
\* a number from 0 to L, and a tick takes a positive timeRemaining down by
\* exactly 1; while it has no time limit, timeRemaining is null, no tick
\* happens and checked becomes true only through Check or Show answers.
C19_TimeRemainingInRange ==
    [][ /\ (pc' = "running" /\ TimeLimitOf(ActiveQ') # Null) =>
            /\ timeLeft' # Null
            /\ timeLeft'[1] \in 0..TimeLimitOf(ActiveQ')[1]
        /\ last' = "TimerTick" =>
            /\ timeLeft # Null
            /\ timeLeft[1] > 0
            /\ timeLeft' = Some(timeLeft[1] - 1)
        /\ (pc' = "running" /\ TimeLimitOf(ActiveQ') = Null) =>
            /\ timeLeft' = Null
            /\ last' # "TimerTick"
            /\ (checked' /\ ~(checked /\ ActiveQ' = ActiveQ /\ index' = index)) =>
                   last' \in {"Check", "ShowAnswers"}
      ]_vars

\* A tick took the countdown of a question with a time limit of more than
\* one second from its limit to one second less.
C19_Witness ==
    /\ pc = "running"
    /\ last = "TimerTick"
    /\ TimeLimitOf(ActiveQ) # Null
    /\ TimeLimitOf(ActiveQ)[1] > 1
    /\ timeLeft = Some(TimeLimitOf(ActiveQ)[1] - 1)
    /\ ~checked

\* C20: no tick of an interval that was scheduled before a Next or Previous
\* changed the active question is applied to the timeRemaining of the
\* session that follows it.
C20_NoTickAcrossNavigation ==
    [][last' = "TimerTick" => intervalFrom \notin {"Next", "Previous"}]_vars

====
